---- MODULE Spec2Model ----
(***************************************************************************)
(* The WebLLM bridge of cognitio_app/backend/api/views/webllm_views.py:   *)
(* the WebLLMBridgeManager registry (requests, response queues, completion *)
(* events, one lock), the non-streaming handlers webllm_generate and       *)
(* webllm_chat, the streaming adapter stream_webllm_response, the cleanup  *)
(* timer and the external compute actor that polls and submits.            *)
(*                                                                         *)
(* Every manager method that runs under "with self._lock" is one atomic    *)
(* action.  wait_for_completion takes no lock: its membership test, its    *)
(* lookup and its Event.wait are separate steps.  A request id of the      *)
(* model is the position of the request in insertion order (the uuid's     *)
(* value is never inspected by the code), so dict iteration order is id    *)
(* order.                                                                  *)
(***************************************************************************)
EXTENDS Integers, Sequences, FiniteSets, TLC

\* ------------------------------------------------------------ bounds
\* The source runs with MAX_CONCURRENT_REQUESTS = 10 and REQUEST_TTL = 600
\* seconds (webllm_views.py:24,26); the model runs the same code with a
\* smaller capacity and a coarser clock.  DEFAULT_WEBLLM_TIMEOUT is the
\* source's value (webllm_views.py:23).
MAX_CONCURRENT_REQUESTS == 2
REQUEST_TTL == 1
DEFAULT_WEBLLM_TIMEOUT == 180
\* the stream's inactivity ceilings: 30 s before the first response, 10 s
\* after it (webllm_views.py:506)
MaxInactiveInitial == 2
MaxInactiveStreaming == 1
\* ids ever handed out, clock ticks, submissions accepted per request
MaxRequests == 3
MaxTime == 2
MaxSubmits == 2
MaxSweepFailures == 1

Ids == 1..MaxRequests
\* the HTTP thread whose handler is followed step by step
Callers == {1}
Threads == {1, 2}
None == "None"

\* ------------------------------------------------------------ values
\* WebLLMResponse values the external actor may submit (content, error,
\* usage, done).  usage is the empty dict or a dict with a token count.
NoUsage == "{}"
SomeUsage == "{total_tokens: 5}"
Resp(c, e, u, d) == [content |-> c, error |-> e, usage |-> u, done |-> d]
\* a response without error and an error
Responses ==
    { Resp("hi there", None, SomeUsage, FALSE),
      Resp("", "boom", NoUsage, FALSE) }
\* what the stream adapter tells apart: content or none, final or not,
\* usage or none, error
StreamResponses ==
    { Resp("a", None, NoUsage, FALSE),
      Resp("b", None, SomeUsage, TRUE),
      Resp("", None, SomeUsage, TRUE),
      Resp("", "boom", NoUsage, FALSE) }

\* Python truthiness of the values the code tests
Truthy(v) == v \notin {None, "", NoUsage}

\* request timeouts a caller may send
Timeouts == {1}
\* "timeout": null in the request body: request.data.get('timeout', ...)
\* returns None (lines 277, 360, 381) and nothing validates it
NoTimeout == -1
AnyTimeouts == Timeouts \cup {NoTimeout}

\* ------------------------------------------------------------ state
VARIABLES
    requests,           \* self._requests: id -> WebLLMRequest
    response_queues,    \* self._response_queues: id -> deque
    completion_events,  \* keys of self._completion_events
    event_set,          \* the flag of the Event object created for each id
    now,                \* the clock
    next_id,            \* ids handed out so far, plus one
    pc, mode, rid, tmo, deadline, wret, result,   \* per caller
    start_time, last_activity, response_received, frames,  \* per stream
    submitted,          \* history: responses submit_response accepted, per id
    delivered,          \* history: responses get_response returned, per id
    set_calls,          \* history: Event.set() calls made by submit_response
    removed_by,         \* history: which path removed the entry
    saved,              \* per caller: what became of its save_chat_messages
    lock,               \* self._lock: 0 when free, else the thread holding it
    lock_op,            \* per thread: the method it runs under the lock
    cleanup_timer,      \* self._cleanup_timer
    cleanup_failures    \* history: cleanup cycles that raised

mgr == <<requests, response_queues, completion_events, event_set>>
callers == <<pc, mode, rid, tmo, deadline, wret, result>>
streams == <<start_time, last_activity, response_received, frames>>
hist == <<submitted, delivered, set_calls, removed_by>>
sync == <<lock, lock_op>>
sched == <<cleanup_timer, cleanup_failures>>
aux == <<saved, sync, sched>>
vars == <<mgr, now, next_id, callers, streams, hist, aux>>

\* dict helpers
Drop(f, k) == [i \in DOMAIN f \ {k} |-> f[i]]
Put(f, k, v) == [i \in DOMAIN f \cup {k} |-> IF i = k THEN v ELSE f[i]]

\* the registry as one value
Registry ==
    [requests |-> requests, response_queues |-> response_queues,
     completion_events |-> completion_events, event_set |-> event_set]

\* a variant of the lock that excludes nobody
lock_free_always(l) == TRUE

\* "with self._lock": the block is entered when no thread holds the lock
lock_free(l) == l = 0

\* a manager method that runs within one step takes the lock, changes the
\* maps and releases the lock
SetRegistry(r) ==
    /\ lock_free(lock)
    /\ requests' = r.requests
    /\ response_queues' = r.response_queues
    /\ completion_events' = r.completion_events
    /\ event_set' = r.event_set

\* WebLLMRequest as created by create_request
WebLLMRequest(stream, timeout, created_at) ==
    [stream |-> stream, timeout |-> timeout, created_at |-> created_at,
     status |-> "pending"]

\* ------------------------------------------------------------ manager
\* Each operator is the body of one method, from the registry before the
\* call to the registry after it (reg) and the value returned (ret).

\* a variant that drops the event without setting it
remove_request_unsignalled(reg, request_id) ==
    [requests |-> Drop(reg.requests, request_id),
     response_queues |-> Drop(reg.response_queues, request_id),
     completion_events |-> reg.completion_events \ {request_id},
     event_set |-> reg.event_set]

\* a variant that leaves the response queue behind
remove_request_keep_queue(reg, request_id) ==
    [requests |-> Drop(reg.requests, request_id),
     response_queues |-> reg.response_queues,
     completion_events |-> reg.completion_events \ {request_id},
     event_set |-> IF request_id \in reg.completion_events
                   THEN [reg.event_set EXCEPT ![request_id] = TRUE]
                   ELSE reg.event_set]

\* _remove_request (called with the lock held)
remove_request(reg, request_id) ==
    [requests |-> Drop(reg.requests, request_id),
     response_queues |-> Drop(reg.response_queues, request_id),
     completion_events |-> reg.completion_events \ {request_id},
     event_set |-> IF request_id \in reg.completion_events
                   THEN [reg.event_set EXCEPT ![request_id] = TRUE]
                   ELSE reg.event_set]

\* a variant that evicts the request inserted first, whatever its created_at
first_inserted_id(reg) ==
    CHOOSE i \in DOMAIN reg.requests : \A j \in DOMAIN reg.requests : i <= j

\* min(self._requests.keys(), key=created_at): the first of the smallest
oldest_id(reg) ==
    CHOOSE i \in DOMAIN reg.requests :
        \A j \in DOMAIN reg.requests :
            \/ reg.requests[i].created_at < reg.requests[j].created_at
            \/ /\ reg.requests[i].created_at = reg.requests[j].created_at
               /\ i <= j

\* a variant that evicts only once the registry is over the maximum
over_capacity(reg) == Cardinality(DOMAIN reg.requests) > MAX_CONCURRENT_REQUESTS

at_capacity(reg) == Cardinality(DOMAIN reg.requests) >= MAX_CONCURRENT_REQUESTS

\* create_request, the part under the lock
create_request(reg, request_id, webllm_request) ==
    LET r1 == IF at_capacity(reg)
              THEN remove_request(reg, oldest_id(reg))
              ELSE reg
    IN  [requests |-> Put(r1.requests, request_id, webllm_request),
         response_queues |->
             IF webllm_request.stream
             THEN Put(r1.response_queues, request_id, << >>)
             ELSE r1.response_queues,
         completion_events |-> r1.completion_events \cup {request_id},
         event_set |-> [r1.event_set EXCEPT ![request_id] = FALSE]]

\* a variant that lists every request not yet completed
get_pending_requests_unfinished(reg) ==
    {i \in DOMAIN reg.requests : reg.requests[i].status # "completed"}

get_pending_requests(reg) ==
    {i \in DOMAIN reg.requests : reg.requests[i].status = "pending"}

\* a variant that reports success whether or not the id is known
mark_processing_blind(reg, request_id) ==
    [reg |-> IF request_id \in DOMAIN reg.requests
             THEN [reg EXCEPT !.requests[request_id].status = "processing"]
             ELSE reg,
     ret |-> TRUE]

mark_processing(reg, request_id) ==
    IF request_id \in DOMAIN reg.requests
    THEN [reg |-> [reg EXCEPT !.requests[request_id].status = "processing"],
          ret |-> TRUE]
    ELSE [reg |-> reg, ret |-> FALSE]

\* whether this submission calls Event.set()
submit_signals(reg, request_id, response) ==
    /\ request_id \in DOMAIN reg.requests
    /\ IF reg.requests[request_id].stream
       THEN /\ request_id \in DOMAIN reg.response_queues
            /\ (response.done \/ Truthy(response.error))
       ELSE TRUE

\* a variant that signals completion on every response of a streaming
\* request
submit_response_eager(reg, request_id, response) ==
    IF request_id \notin DOMAIN reg.requests
    THEN [reg |-> reg, ret |-> FALSE]
    ELSE IF reg.requests[request_id].stream
    THEN IF request_id \in DOMAIN reg.response_queues
         THEN LET q == Append(reg.response_queues[request_id], response)
                  r1 == [reg EXCEPT !.response_queues[request_id] = q]
              IN  [reg |-> [r1 EXCEPT
                              !.event_set[request_id] = TRUE,
                              !.requests[request_id].status = "completed"],
                   ret |-> TRUE]
         ELSE [reg |-> reg, ret |-> FALSE]
    ELSE [reg |-> [requests |-> [reg.requests EXCEPT
                                   ![request_id].status = "completed"],
                   response_queues |->
                       Put(reg.response_queues, request_id, <<response>>),
                   completion_events |-> reg.completion_events,
                   event_set |-> [reg.event_set EXCEPT ![request_id] = TRUE]],
          ret |-> TRUE]

\* a variant that records the response and the status but never calls
\* Event.set()
submit_response_unsignalled(reg, request_id, response) ==
    IF request_id \notin DOMAIN reg.requests
    THEN [reg |-> reg, ret |-> FALSE]
    ELSE IF reg.requests[request_id].stream
    THEN IF request_id \in DOMAIN reg.response_queues
         THEN LET q == Append(reg.response_queues[request_id], response)
                  r1 == [reg EXCEPT !.response_queues[request_id] = q]
              IN  IF response.done \/ Truthy(response.error)
                  THEN [reg |-> [r1 EXCEPT
                                   !.requests[request_id].status = "completed"],
                        ret |-> TRUE]
                  ELSE [reg |-> r1, ret |-> TRUE]
         ELSE [reg |-> reg, ret |-> FALSE]
    ELSE [reg |-> [requests |-> [reg.requests EXCEPT
                                   ![request_id].status = "completed"],
                   response_queues |->
                       Put(reg.response_queues, request_id, <<response>>),
                   completion_events |-> reg.completion_events,
                   event_set |-> reg.event_set],
          ret |-> TRUE]

submit_response(reg, request_id, response) ==
    IF request_id \notin DOMAIN reg.requests
    THEN [reg |-> reg, ret |-> FALSE]
    ELSE IF reg.requests[request_id].stream
    THEN IF request_id \in DOMAIN reg.response_queues
         THEN LET q == Append(reg.response_queues[request_id], response)
                  r1 == [reg EXCEPT !.response_queues[request_id] = q]
              IN  IF response.done \/ Truthy(response.error)
                  THEN [reg |-> [r1 EXCEPT
                                   !.event_set[request_id] = TRUE,
                                   !.requests[request_id].status = "completed"],
                        ret |-> TRUE]
                  ELSE [reg |-> r1, ret |-> TRUE]
         ELSE [reg |-> reg, ret |-> FALSE]
    ELSE [reg |-> [requests |-> [reg.requests EXCEPT
                                   ![request_id].status = "completed"],
                   response_queues |->
                       Put(reg.response_queues, request_id, <<response>>),
                   completion_events |-> reg.completion_events,
                   event_set |-> [reg.event_set EXCEPT ![request_id] = TRUE]],
          ret |-> TRUE]

\* a variant that removes the request with the response it returns, as
\* get_final_response does
get_response_removing(reg, request_id) ==
    IF request_id \notin DOMAIN reg.response_queues
    THEN [reg |-> reg, ret |-> << >>]
    ELSE LET queue == reg.response_queues[request_id]
         IN  IF queue # << >>
             THEN [reg |-> remove_request(reg, request_id), ret |-> <<Head(queue)>>]
             ELSE [reg |-> reg, ret |-> << >>]

\* a variant that takes the newest response (pop instead of popleft)
get_response_newest(reg, request_id) ==
    IF request_id \notin DOMAIN reg.response_queues
    THEN [reg |-> reg, ret |-> << >>]
    ELSE LET queue == reg.response_queues[request_id]
         IN  IF queue # << >>
             THEN [reg |-> [reg EXCEPT !.response_queues[request_id] =
                                   SubSeq(queue, 1, Len(queue) - 1)],
                   ret |-> <<queue[Len(queue)]>>]
             ELSE [reg |-> reg, ret |-> << >>]

\* An Optional[WebLLMResponse] is << >> (None) or <<response>>.
get_response(reg, request_id) ==
    IF request_id \notin DOMAIN reg.response_queues
    THEN [reg |-> reg, ret |-> << >>]
    ELSE LET queue == reg.response_queues[request_id]
         IN  IF queue # << >>
             THEN [reg |-> [reg EXCEPT !.response_queues[request_id] = Tail(queue)],
                   ret |-> <<Head(queue)>>]
             ELSE [reg |-> reg, ret |-> << >>]

\* a variant that pops the response and leaves the request in place
get_final_response_keep(reg, request_id) ==
    IF request_id \notin DOMAIN reg.response_queues
    THEN [reg |-> reg, ret |-> << >>]
    ELSE LET queue == reg.response_queues[request_id]
         IN  IF queue # << >>
             THEN [reg |-> [reg EXCEPT !.response_queues[request_id] = Tail(queue)],
                   ret |-> <<Head(queue)>>]
             ELSE [reg |-> reg, ret |-> << >>]

get_final_response(reg, request_id) ==
    IF request_id \notin DOMAIN reg.response_queues
    THEN [reg |-> reg, ret |-> << >>]
    ELSE LET queue == reg.response_queues[request_id]
         IN  IF queue # << >>
             THEN [reg |-> remove_request(reg, request_id), ret |-> <<Head(queue)>>]
             ELSE [reg |-> reg, ret |-> << >>]

\* a variant that pops the request and leaves its queue and its event
cancel_request_entry_only(reg, request_id) ==
    [reg EXCEPT !.requests = Drop(reg.requests, request_id)]

\* a variant that removes only a request that has not completed
cancel_request_unfinished(reg, request_id) ==
    IF /\ request_id \in DOMAIN reg.requests
       /\ reg.requests[request_id].status # "completed"
    THEN remove_request(reg, request_id)
    ELSE reg

cancel_request(reg, request_id) ==
    IF request_id \in DOMAIN reg.requests
    THEN remove_request(reg, request_id)
    ELSE reg

StatusCount(reg, s) ==
    Cardinality({i \in DOMAIN reg.requests : reg.requests[i].status = s})

\* a variant whose total leaves out the completed requests
get_status_active(reg) ==
    [total_requests |-> Cardinality(DOMAIN reg.requests)
                            - StatusCount(reg, "completed"),
     requests_by_status |->
         [s \in {reg.requests[i].status : i \in DOMAIN reg.requests} |->
             StatusCount(reg, s)],
     max_concurrent |-> MAX_CONCURRENT_REQUESTS]

get_status(reg) ==
    [total_requests |-> Cardinality(DOMAIN reg.requests),
     requests_by_status |->
         [s \in {reg.requests[i].status : i \in DOMAIN reg.requests} |->
             StatusCount(reg, s)],
     max_concurrent |-> MAX_CONCURRENT_REQUESTS]

\* a variant that also takes the requests whose age equals the TTL
expired_ids_eager(reg, t) ==
    {i \in DOMAIN reg.requests : t - reg.requests[i].created_at >= REQUEST_TTL}

\* _cleanup_expired_requests, the part under the lock
expired_ids(reg, t) ==
    {i \in DOMAIN reg.requests : t - reg.requests[i].created_at > REQUEST_TTL}

RECURSIVE remove_all(_, _)
remove_all(reg, ids) ==
    IF ids = {} THEN reg
    ELSE LET i == CHOOSE x \in ids : \A y \in ids : x <= y
         IN  remove_all(remove_request(reg, i), ids \ {i})

cleanup_expired_requests(reg, t) == remove_all(reg, expired_ids(reg, t))

\* _start_cleanup_timer, lines 88-94: the old timer is cancelled and a new
\* one is started
start_cleanup_timer(timer) == "armed"

\* a variant that schedules the next cycle only after a sweep that went
\* through
after_cleanup_cycle_unhealed(outcome) ==
    IF outcome = "raised" THEN "fired" ELSE start_cleanup_timer("fired")

\* the timer after a cycle, lines 110 and 115: the one that fired is
\* replaced in the try block and in the except clause alike
after_cleanup_cycle(outcome) ==
    IF outcome = "raised"
    THEN start_cleanup_timer("fired")
    ELSE start_cleanup_timer("fired")

\* wait_for_completion line 208: timeout or (request.timeout if request
\* else DEFAULT_WEBLLM_TIMEOUT)
actual_timeout(reg, request_id, timeout) ==
    IF timeout \notin {0, NoTimeout} THEN timeout
    ELSE IF request_id \in DOMAIN reg.requests
         THEN reg.requests[request_id].timeout
         ELSE DEFAULT_WEBLLM_TIMEOUT

\* ------------------------------------------------------------ results
\* What a handler returns: the HTTP status and the body's fields.
NoResult == [status |-> 0, content |-> "", usage |-> NoUsage, error |-> None]
Success(response) ==
    [status |-> 200,
     content |-> IF response # << >> THEN response[1].content ELSE "",
     usage |-> IF response # << >> THEN response[1].usage ELSE NoUsage,
     error |-> None]
Failure(code, msg) ==
    [status |-> code, content |-> "", usage |-> NoUsage, error |-> msg]

\* What the database does when save_chat_messages runs: the request has
\* no session_id and nothing is attempted, the messages are stored, the
\* session does not exist, or a query raises.
Persistence == {"skipped", "saved", "not_found", "raised"}

\* save_chat_messages, lines 417-449: how the call ends
save_chat_messages(p) ==
    CASE p = "skipped" -> "returned"
      [] p = "saved" -> "returned"
      [] p = "not_found" -> "returned"
      [] p = "raised" -> "returned"

\* a variant of the handlers' call without any exception handling
try_save_unguarded(p) ==
    IF p \in {"not_found", "raised"} THEN "raised" ELSE "returned"

\* the try/except around the call, lines 394-398 and 495-499
try_save(p) ==
    IF save_chat_messages(p) = "raised" THEN "logged" ELSE "returned"

\* webllm_generate lines 296-312 and webllm_chat lines 386-409, after
\* wait_for_completion returned completed: the new registry, the result,
\* and whether save_chat_messages was reached.  An exception leaving the
\* try block ends in the outer except clause (411-415).
handler_after_wait(reg, request_id, m, completed, p) ==
    IF completed
    THEN LET g == get_final_response(reg, request_id)
             response == g.ret
             failed == response # << >> /\ Truthy(response[1].error)
             saves == m = "chat" /\ ~failed
         IN  [reg |-> g.reg,
              saves |-> saves,
              result |-> IF failed
                         THEN Failure(500, response[1].error)
                         ELSE IF saves /\ try_save(p) = "raised"
                         THEN Failure(500, "exception")
                         ELSE Success(response)]
    ELSE [reg |-> cancel_request(reg, request_id),
          saves |-> FALSE,
          result |-> Failure(IF m = "generate" THEN 408 ELSE 504, "timeout")]

\* ------------------------------------------------------------ actions
Init ==
    /\ requests = << >>
    /\ response_queues = << >>
    /\ completion_events = {}
    /\ event_set = [i \in Ids |-> FALSE]
    /\ now = 0
    /\ next_id = 1
    /\ pc = [c \in Callers |-> "idle"]
    /\ mode = [c \in Callers |-> "generate"]
    /\ rid = [c \in Callers |-> 0]
    /\ tmo = [c \in Callers |-> 0]
    /\ deadline = [c \in Callers |-> 0]
    /\ wret = [c \in Callers |-> FALSE]
    /\ result = [c \in Callers |-> NoResult]
    /\ start_time = [c \in Callers |-> 0]
    /\ last_activity = [c \in Callers |-> 0]
    /\ response_received = [c \in Callers |-> FALSE]
    /\ frames = [c \in Callers |-> << >>]
    /\ submitted = [i \in Ids |-> << >>]
    /\ delivered = [i \in Ids |-> << >>]
    /\ set_calls = [i \in Ids |-> 0]
    /\ removed_by = [i \in Ids |-> "none"]
    /\ saved = [c \in Callers |-> "none"]
    /\ lock = 0
    /\ lock_op = [t \in Threads |-> << >>]
    /\ cleanup_timer = "armed"
    /\ cleanup_failures = 0

\* The histories of submissions and deliveries are kept for a request
\* while it is in the registry; the count of completion signals and the
\* path that removed a request are kept while it is in the registry or a
\* handler still holds its id.  reg2 and rid2 are the registry and the
\* callers' ids after the step, how names the path of a removal.
Histories(sub, del, sc, reg2, rid2, how) ==
    LET live(i) == i \in DOMAIN reg2.requests
        held(i) == \E c \in Callers : rid2[c] = i
        gone(i) == i \in DOMAIN requests /\ i \notin DOMAIN reg2.requests
    IN  /\ submitted' = [i \in Ids |-> IF live(i) THEN sub[i] ELSE << >>]
        /\ delivered' = [i \in Ids |-> IF live(i) THEN del[i] ELSE << >>]
        /\ set_calls' = [i \in Ids |-> IF live(i) \/ held(i) THEN sc[i] ELSE 0]
        /\ removed_by' = [i \in Ids |->
               IF ~held(i) THEN "none"
               ELSE IF gone(i) THEN how ELSE removed_by[i]]

\* a step that changes the registry to reg2 and no history of its own
Removal(reg2, how) ==
    /\ SetRegistry(reg2)
    /\ Histories(submitted, delivered, set_calls, reg2, rid, how)

\* time.time() / datetime.now() advance
Tick ==
    /\ UNCHANGED aux
    /\ now < MaxTime
    /\ now' = now + 1
    /\ UNCHANGED <<mgr, next_id, callers, streams, hist>>

\* created_at is taken when the WebLLMRequest is built (create_request
\* 129-140), before the lock is taken at 142: by then the clock may have
\* moved on by a tick.
CreatedAt == {t \in {now - 1, now} : t >= 0}

\* A handler calls create_request: webllm_generate (lines 272-293),
\* webllm_chat without stream (373-383) or with stream (352-362).
CreateRequest(c, m, t, at) ==
    /\ UNCHANGED aux
    /\ pc[c] = "idle"
    /\ next_id <= MaxRequests
    /\ mode' = [mode EXCEPT ![c] = m]
    /\ tmo' = [tmo EXCEPT ![c] = t]
    /\ rid' = [rid EXCEPT ![c] = next_id]
    /\ LET reg2 == create_request(Registry, next_id,
                       WebLLMRequest(m = "stream", t, at))
       IN  /\ SetRegistry(reg2)
           /\ Histories(submitted, delivered, set_calls, reg2, rid', "evict")
    /\ next_id' = next_id + 1
    /\ pc' = [pc EXCEPT ![c] = IF m = "stream" THEN "stream_ready"
                                ELSE "wait_check"]
    /\ UNCHANGED <<now, deadline, wret, result, streams>>

\* webllm_chat with stream (352-370) for a client that goes away before
\* the StreamingHttpResponse is iterated: the generator body never runs
\* and the request stays behind.
CreateAbandoned(t, at) ==
    /\ UNCHANGED aux
    /\ next_id <= MaxRequests
    /\ LET reg2 == create_request(Registry, next_id, WebLLMRequest(TRUE, t, at))
       IN  Removal(reg2, "evict")
    /\ next_id' = next_id + 1
    /\ UNCHANGED <<now, callers, streams>>

\* wait_for_completion line 203-204, no lock held
WaitCheck(c) ==
    /\ UNCHANGED aux
    /\ pc[c] = "wait_check"
    /\ IF rid[c] \notin completion_events
       THEN /\ wret' = [wret EXCEPT ![c] = FALSE]
            /\ pc' = [pc EXCEPT ![c] = "after_wait"]
       ELSE /\ pc' = [pc EXCEPT ![c] = "wait_lookup"]
            /\ UNCHANGED wret
    /\ UNCHANGED <<mgr, now, next_id, mode, rid, tmo, deadline, result,
                   streams, hist>>

\* the time at which Event.wait(timeout) gives up; Event.wait(None) never
\* does
wait_deadline(t, timeout) ==
    IF timeout = NoTimeout THEN NoTimeout ELSE t + timeout

\* wait_for_completion lines 206-208, no lock held: the subscript raises
\* KeyError when the entry went between the test and the lookup, and the
\* handler's except clause (314-318, 411-415) turns it into a 500.
WaitLookup(c) ==
    /\ UNCHANGED aux
    /\ pc[c] = "wait_lookup"
    /\ IF rid[c] \notin completion_events
       THEN /\ result' = [result EXCEPT ![c] = Failure(500, "KeyError")]
            /\ pc' = [pc EXCEPT ![c] = "done"]
            /\ UNCHANGED deadline
       ELSE /\ deadline' = [deadline EXCEPT ![c] =
                   wait_deadline(now, actual_timeout(Registry, rid[c], tmo[c]))]
            /\ pc' = [pc EXCEPT ![c] = "wait_block"]
            /\ UNCHANGED result
    /\ UNCHANGED <<mgr, now, next_id, mode, rid, tmo, wret, streams, hist>>

\* Event.wait(timeout) line 210: True as soon as the flag is set, False
\* once the timeout has elapsed with the flag still clear
event_wait(flag, t, dl) ==
    IF flag THEN {TRUE}
    ELSE IF dl # NoTimeout /\ t >= dl THEN {FALSE} ELSE {}

WaitReturn(c) ==
    /\ UNCHANGED aux
    /\ pc[c] = "wait_block"
    /\ \E b \in event_wait(event_set[rid[c]], now, deadline[c]) :
           wret' = [wret EXCEPT ![c] = b]
    /\ pc' = [pc EXCEPT ![c] = "after_wait"]
    /\ UNCHANGED <<mgr, now, next_id, mode, rid, tmo, deadline, result,
                   streams, hist>>

\* the rest of the non-streaming handler: get_final_response and the
\* result, or cancel_request and the timeout error
HandlerFinish(c) ==
    /\ pc[c] = "after_wait"
    /\ \E p \in Persistence :
           LET h == handler_after_wait(Registry, rid[c], mode[c], wret[c], p)
           IN  /\ Removal(h.reg, IF wret[c] THEN "final" ELSE "cancel")
               /\ result' = [result EXCEPT ![c] = h.result]
               /\ saved' = [saved EXCEPT ![c] = IF h.saves THEN p ELSE "none"]
    /\ pc' = [pc EXCEPT ![c] = "done"]
    /\ UNCHANGED <<now, next_id, mode, rid, tmo, deadline, wret, streams,
                   sync, sched>>

\* the HTTP thread is free for the next call
HandlerReturn(c) ==
    /\ pc[c] = "done"
    /\ pc' = [pc EXCEPT ![c] = "idle"]
    /\ rid' = [rid EXCEPT ![c] = 0]
    /\ tmo' = [tmo EXCEPT ![c] = 0]
    /\ mode' = [mode EXCEPT ![c] = "generate"]
    /\ deadline' = [deadline EXCEPT ![c] = 0]
    /\ wret' = [wret EXCEPT ![c] = FALSE]
    /\ result' = [result EXCEPT ![c] = NoResult]
    /\ start_time' = [start_time EXCEPT ![c] = 0]
    /\ last_activity' = [last_activity EXCEPT ![c] = 0]
    /\ response_received' = [response_received EXCEPT ![c] = FALSE]
    /\ frames' = [frames EXCEPT ![c] = << >>]
    /\ saved' = [saved EXCEPT ![c] = "none"]
    /\ Histories(submitted, delivered, set_calls, Registry, rid', "none")
    /\ UNCHANGED <<mgr, now, next_id, sync, sched>>

\* ------------------------------------------------------------ stream
\* stream_webllm_response.  The generator body runs only once the response
\* is iterated; a client that goes away first leaves the request behind.
StreamStart(c) ==
    /\ UNCHANGED aux
    /\ pc[c] = "stream_ready"
    /\ start_time' = [start_time EXCEPT ![c] = now]
    /\ last_activity' = [last_activity EXCEPT ![c] = now]
    /\ response_received' = [response_received EXCEPT ![c] = FALSE]
    /\ pc' = [pc EXCEPT ![c] = "loop"]
    /\ UNCHANGED <<mgr, now, next_id, mode, rid, tmo, deadline, wret,
                   result, frames, hist>>

Frame(type, v) == [type |-> type, v |-> v]

\* lines 482-500 for a response that arrived: the frames yielded and
\* whether the loop breaks
stream_on_response(response, p) ==
    IF Truthy(response.error)
    THEN [out |-> <<Frame("error", response.error)>>, stop |-> TRUE,
          saves |-> FALSE]
    ELSE IF Truthy(response.content)
    THEN IF response.done
         THEN [out |-> <<Frame("delta", response.content)>>
                        \o (IF Truthy(response.usage)
                            THEN <<Frame("usage", response.usage)>>
                            ELSE << >>)
                        \o (IF try_save(p) = "raised"
                            THEN <<Frame("error", "exception")>>
                            ELSE << >>),
               stop |-> TRUE, saves |-> TRUE]
         ELSE [out |-> <<Frame("delta", response.content)>>, stop |-> FALSE,
               saves |-> FALSE]
    ELSE [out |-> << >>, stop |-> FALSE, saves |-> FALSE]

\* a variant of the timeout test that lets the iteration at elapsed =
\* timeout go on
timed_out_late(elapsed, timeout) == elapsed > timeout

\* line 470
timed_out(elapsed, timeout) == elapsed >= timeout

\* One iteration, lines 467-500: the timeout test, then get_response and
\* what is done with a response.  With a timeout of None the comparison
\* at line 470 raises TypeError, which the except clause (521-523) turns
\* into an error frame before the finally clause runs.
StreamPoll(c) ==
    /\ pc[c] = "loop"
    /\ IF tmo[c] = NoTimeout
       THEN /\ frames' = [frames EXCEPT ![c] = Append(@, Frame("error", "exception"))]
            /\ pc' = [pc EXCEPT ![c] = "finally"]
            /\ UNCHANGED <<mgr, last_activity, response_received, hist, saved>>
       ELSE IF timed_out(now - start_time[c], tmo[c])
       THEN /\ frames' = [frames EXCEPT ![c] = Append(@, Frame("error", "timed out"))]
            /\ pc' = [pc EXCEPT ![c] = "finally"]
            /\ UNCHANGED <<mgr, last_activity, response_received, hist, saved>>
       ELSE LET g == get_response(Registry, rid[c])
            IN  /\ SetRegistry(g.reg)
                /\ UNCHANGED <<submitted, set_calls, removed_by>>
                /\ IF g.ret # << >>
                   THEN \E p \in Persistence :
                        LET s == stream_on_response(g.ret[1], p)
                        IN  /\ last_activity' = [last_activity EXCEPT ![c] = now]
                            /\ response_received' = [response_received EXCEPT ![c] = TRUE]
                            /\ frames' = [frames EXCEPT ![c] = @ \o s.out]
                            /\ pc' = [pc EXCEPT ![c] = IF s.stop THEN "finally" ELSE "loop"]
                            /\ delivered' = [delivered EXCEPT ![rid[c]] = Append(@, g.ret[1])]
                            /\ saved' = [saved EXCEPT ![c] = IF s.saves THEN p ELSE @]
                   ELSE /\ pc' = [pc EXCEPT ![c] = "no_response"]
                        /\ UNCHANGED <<last_activity, response_received, frames,
                                       delivered, saved>>
    /\ UNCHANGED <<now, next_id, mode, rid, tmo, deadline, wret, result,
                   start_time, sync, sched>>

\* a variant with the one ceiling of 30 s throughout
max_inactive_time_flat(received) == MaxInactiveInitial

\* line 506
max_inactive_time(received) ==
    IF ~received THEN MaxInactiveInitial ELSE MaxInactiveStreaming

\* a variant of the existence test that never sees the request gone
request_exists_always(reg, request_id) == TRUE

\* line 514, read without the lock
request_exists(reg, request_id) == request_id \in DOMAIN reg.requests

\* lines 503-519
StreamNoResponse(c) ==
    /\ UNCHANGED aux
    /\ pc[c] = "no_response"
    /\ IF now - last_activity[c] > max_inactive_time(response_received[c])
       THEN /\ frames' = [frames EXCEPT ![c] = Append(@, Frame("error", "inactive"))]
            /\ pc' = [pc EXCEPT ![c] = "finally"]
       ELSE /\ pc' = [pc EXCEPT ![c] =
                         IF request_exists(Registry, rid[c]) THEN "loop"
                         ELSE "finally"]
            /\ UNCHANGED frames
    /\ UNCHANGED <<mgr, now, next_id, mode, rid, tmo, deadline, wret,
                   result, start_time, last_activity, response_received, hist>>

\* The consumer closes the generator while it is suspended at the yield
\* of a frame after which the loop goes on: GeneratorExit is raised there,
\* is not an Exception, and only the finally clause runs.
StreamClose(c) ==
    /\ UNCHANGED aux
    /\ pc[c] = "loop"
    /\ frames[c] # << >>
    /\ pc' = [pc EXCEPT ![c] = "finally"]
    /\ UNCHANGED <<mgr, now, next_id, mode, rid, tmo, deadline, wret, result,
                   streams, hist>>

\* lines 525-528
StreamFinally(c) ==
    /\ UNCHANGED aux
    /\ pc[c] = "finally"
    /\ Removal(cancel_request(Registry, rid[c]), "cancel")
    /\ pc' = [pc EXCEPT ![c] = "done"]
    /\ UNCHANGED <<now, next_id, mode, rid, tmo, deadline, wret, result,
                   streams>>

\* A consumer that calls get_response itself, as the adapter does at line
\* 476, and cancels when it has had enough.
GetResponse(c) ==
    /\ UNCHANGED aux
    /\ pc[c] = "stream_ready"
    /\ LET g == get_response(Registry, rid[c])
       IN  /\ SetRegistry(g.reg)
           /\ delivered' = [delivered EXCEPT ![rid[c]] =
                               IF g.ret # << >> THEN Append(@, g.ret[1]) ELSE @]
    /\ UNCHANGED <<now, next_id, callers, streams, submitted, set_calls, removed_by>>

ConsumerStop(c) ==
    /\ UNCHANGED aux
    /\ pc[c] = "stream_ready"
    /\ pc' = [pc EXCEPT ![c] = "finally"]
    /\ UNCHANGED <<mgr, now, next_id, mode, rid, tmo, deadline, wret, result,
                   streams, hist>>

\* ------------------------------------------------------------ others
\* The external compute actor.  It works on the request of the handler
\* that is followed, or on an id the registry does not hold; the requests
\* left behind by other clients only fill the registry.
Followed(i) == \E c \in Callers : rid[c] = i
Target(i) == Followed(i) \/ i \notin DOMAIN requests

MarkProcessing(i) ==
    /\ UNCHANGED aux
    /\ Target(i)
    /\ SetRegistry(mark_processing(Registry, i).reg)
    /\ UNCHANGED <<now, next_id, callers, streams, hist>>

SubmitResponse(i, r) ==
    /\ UNCHANGED aux
    /\ Target(i)
    /\ Len(submitted[i]) < MaxSubmits
    /\ LET s == submit_response(Registry, i, r)
       IN  /\ SetRegistry(s.reg)
           /\ submitted' = [submitted EXCEPT ![i] =
                               IF s.ret THEN Append(@, r) ELSE @]
    /\ set_calls' = [set_calls EXCEPT ![i] =
                        IF submit_signals(Registry, i, r) THEN @ + 1 ELSE @]
    /\ UNCHANGED <<now, next_id, callers, streams, delivered, removed_by>>

\* cancel_request called directly on the manager
CancelRequest(i) ==
    /\ UNCHANGED aux
    /\ Removal(cancel_request(Registry, i), "cancel")
    /\ UNCHANGED <<now, next_id, callers, streams>>

\* the cleanup timer fires and the sweep goes through, lines 98-110
CleanupExpired ==
    /\ cleanup_timer = "armed"
    /\ Removal(cleanup_expired_requests(Registry, now), "sweep")
    /\ cleanup_timer' = after_cleanup_cycle("swept")
    /\ UNCHANGED <<now, next_id, callers, streams, saved, sync,
                   cleanup_failures>>

\* the cleanup timer fires and the sweep raises after removing the first
\* k of the expired requests, lines 98-108 and 112-115
CleanupRaises ==
    /\ cleanup_timer = "armed"
    /\ cleanup_failures < MaxSweepFailures
    /\ \E k \in 0..MaxRequests :
           Removal(remove_all(Registry,
                              {i \in expired_ids(Registry, now) : i <= k}),
                   "sweep")
    /\ cleanup_timer' = after_cleanup_cycle("raised")
    /\ cleanup_failures' = cleanup_failures + 1
    /\ UNCHANGED <<now, next_id, callers, streams, saved, sync>>

\* what every system has: the clock, the clients that leave a request
\* behind, the actor's mark_processing, direct cancellation, the timer
Environment ==
    \/ Tick
    \/ \E t \in Timeouts, at \in CreatedAt : CreateAbandoned(t, at)
    \/ \E i \in Ids : MarkProcessing(i)
    \/ \E i \in Ids : CancelRequest(i)
    \/ CleanupExpired

\* the followed thread serves webllm_generate and non-streaming webllm_chat
Next ==
    \/ Environment
    \/ \E c \in Callers, m \in {"generate", "chat"}, t \in Timeouts, at \in CreatedAt :
           CreateRequest(c, m, t, at)
    \/ \E c \in Callers : WaitCheck(c)
    \/ \E c \in Callers : WaitLookup(c)
    \/ \E c \in Callers : WaitReturn(c)
    \/ \E c \in Callers : HandlerFinish(c)
    \/ \E c \in Callers : HandlerReturn(c)
    \/ \E i \in Ids, r \in Responses : SubmitResponse(i, r)

Spec == Init /\ [][Next]_vars

\* the followed thread serves streaming webllm_chat
NextStream ==
    \/ Environment
    \/ \E c \in Callers, t \in Timeouts, at \in CreatedAt :
           CreateRequest(c, "stream", t, at)
    \/ \E c \in Callers : StreamStart(c)
    \/ \E c \in Callers : StreamPoll(c)
    \/ \E c \in Callers : StreamNoResponse(c)
    \/ \E c \in Callers : StreamFinally(c)
    \/ \E c \in Callers : HandlerReturn(c)
    \/ \E i \in Ids, r \in StreamResponses : SubmitResponse(i, r)

SpecStream == Init /\ [][NextStream]_vars

\* the followed thread creates a streaming request and polls it directly
NextQueue ==
    \/ Environment
    \/ \E c \in Callers, t \in Timeouts, at \in CreatedAt :
           CreateRequest(c, "stream", t, at)
    \/ \E c \in Callers : GetResponse(c)
    \/ \E c \in Callers : ConsumerStop(c)
    \/ \E c \in Callers : StreamFinally(c)
    \/ \E c \in Callers : HandlerReturn(c)
    \/ \E i \in Ids, r \in Responses : SubmitResponse(i, r)

SpecQueue == Init /\ [][NextQueue]_vars

\* The manager driven through both kinds of request by one client, with
\* any timeout value: the non-streaming handler, or a streaming request
\* polled with get_response.
BridgeResponses ==
    {Resp("a", None, NoUsage, FALSE),
     Resp("b", None, SomeUsage, TRUE),
     Resp("", "boom", NoUsage, FALSE)}

NextBridge ==
    \/ Tick
    \/ CleanupExpired
    \/ \E i \in Ids : CancelRequest(i)
    \/ \E i \in Ids : MarkProcessing(i)
    \/ \E c \in Callers, m \in {"generate", "chat", "stream"},
          t \in AnyTimeouts, at \in CreatedAt : CreateRequest(c, m, t, at)
    \/ \E c \in Callers : WaitCheck(c)
    \/ \E c \in Callers : WaitLookup(c)
    \/ \E c \in Callers : WaitReturn(c)
    \/ \E c \in Callers : HandlerFinish(c)
    \/ \E c \in Callers : GetResponse(c)
    \/ \E c \in Callers : ConsumerStop(c)
    \/ \E c \in Callers : StreamFinally(c)
    \/ \E c \in Callers : HandlerReturn(c)
    \/ \E i \in Ids, r \in BridgeResponses : SubmitResponse(i, r)

SpecBridge == Init /\ [][NextBridge]_vars

\* the streaming adapter on its own request, with any timeout value and a
\* consumer that may close the generator
NextAdapter ==
    \/ Tick
    \/ CleanupExpired
    \/ \E i \in Ids : CancelRequest(i)
    \/ \E c \in Callers, t \in AnyTimeouts, at \in CreatedAt :
           CreateRequest(c, "stream", t, at)
    \/ \E c \in Callers : StreamStart(c)
    \/ \E c \in Callers : StreamPoll(c)
    \/ \E c \in Callers : StreamNoResponse(c)
    \/ \E c \in Callers : StreamClose(c)
    \/ \E c \in Callers : StreamFinally(c)
    \/ \E c \in Callers : HandlerReturn(c)
    \/ \E i \in Ids, r \in StreamResponses : SubmitResponse(i, r)

SpecAdapter == Init /\ [][NextAdapter]_vars

\* the cleanup scheduler over requests left behind by their clients, with
\* cycles that raise
NextCleanup ==
    \/ Tick
    \/ \E t \in Timeouts, at \in CreatedAt : CreateAbandoned(t, at)
    \/ \E i \in Ids : CancelRequest(i)
    \/ CleanupExpired
    \/ CleanupRaises

SpecCleanup == Init /\ [][NextCleanup]_vars

\* create_request lines 142-148, by thread t: the lock is taken, the
\* capacity is tested and the oldest request is evicted.  The thread keeps
\* the lock; seen is the registry as the block found it.
LockedCreateBegin(t, stream, at) ==
    /\ lock_op[t] = << >>
    /\ next_id <= MaxRequests
    /\ Removal(IF at_capacity(Registry)
               THEN remove_request(Registry, oldest_id(Registry))
               ELSE Registry, "evict")
    /\ lock' = t
    /\ lock_op' = [lock_op EXCEPT ![t] =
                      <<[request_id |-> next_id,
                         webllm_request |-> WebLLMRequest(stream, 1, at),
                         seen |-> Registry]>>]
    /\ next_id' = next_id + 1
    /\ UNCHANGED <<now, callers, streams, saved, sched>>

\* create_request lines 150-154, by the thread that is inside the block:
\* the request, its event and its queue are inserted and the lock is
\* released
LockedCreateEnd(t) ==
    /\ lock_op[t] # << >>
    /\ LET op == lock_op[t][1]
           q == IF op.webllm_request.stream
                THEN Put(response_queues, op.request_id, << >>)
                ELSE response_queues
       IN  /\ requests' = Put(requests, op.request_id, op.webllm_request)
           /\ completion_events' = completion_events \cup {op.request_id}
           /\ response_queues' = q
           /\ event_set' = [event_set EXCEPT ![op.request_id] = FALSE]
    /\ lock' = 0
    /\ lock_op' = [lock_op EXCEPT ![t] = << >>]
    /\ UNCHANGED <<now, next_id, callers, streams, hist, saved, sched>>

\* any other method of the manager that changes the maps, called by any
\* thread on any id: mark_processing, submit_response, get_response,
\* get_final_response, cancel_request, the cleanup sweep
ManagerCall(i, r) ==
    /\ i \in DOMAIN response_queues => Len(response_queues[i]) < MaxSubmits
    /\ \E reg2 \in {mark_processing(Registry, i).reg,
                     submit_response(Registry, i, r).reg,
                     get_response(Registry, i).reg,
                     get_final_response(Registry, i).reg,
                     cancel_request(Registry, i),
                     cleanup_expired_requests(Registry, now)} :
           /\ reg2 # Registry
           /\ Removal(reg2, "none")
    /\ UNCHANGED <<now, next_id, callers, streams, aux>>

\* the manager called by two threads, with create_request in two steps
NextLock ==
    \/ Tick
    \/ \E t \in Threads, stream \in BOOLEAN : LockedCreateBegin(t, stream, now)
    \/ \E t \in Threads : LockedCreateEnd(t)
    \/ \E i \in Ids : ManagerCall(i, Resp("b", None, SomeUsage, TRUE))

SpecLock == Init /\ [][NextLock]_vars

\* webllm_chat in both its forms, with every outcome of persistence
NextChat ==
    \/ Tick
    \/ \E i \in Ids : CancelRequest(i)
    \/ \E c \in Callers, m \in {"chat", "stream"}, t \in Timeouts,
          at \in CreatedAt : CreateRequest(c, m, t, at)
    \/ \E c \in Callers : WaitCheck(c)
    \/ \E c \in Callers : WaitLookup(c)
    \/ \E c \in Callers : WaitReturn(c)
    \/ \E c \in Callers : HandlerFinish(c)
    \/ \E c \in Callers : StreamStart(c)
    \/ \E c \in Callers : StreamPoll(c)
    \/ \E c \in Callers : StreamNoResponse(c)
    \/ \E c \in Callers : StreamFinally(c)
    \/ \E c \in Callers : HandlerReturn(c)
    \/ \E i \in Ids, r \in BridgeResponses : SubmitResponse(i, r)

SpecChat == Init /\ [][NextChat]_vars

\* ------------------------------------------------------------ claims
NonStreaming == {"generate", "chat"}
Removals == {"cancel", "sweep", "evict"}
Waited(c) == mode[c] \in NonStreaming /\ pc[c] = "after_wait"

\* C1: when the entry of a request is removed by cancel_request, the
\* cleanup sweep or capacity eviction and no submission ever signalled its
\* completion, wait_for_completion on it returns False, whether the
\* caller was already blocked or the id was already absent.
C1_RemovedWaitReturnsFalse ==
    \A c \in Callers :
        (Waited(c) /\ removed_by[rid[c]] \in Removals /\ set_calls[rid[c]] = 0)
            => wret[c] = FALSE

\* C2: a non-streaming handler whose own request was removed by capacity
\* eviction or by the cleanup sweep, so that no response was delivered to
\* it, returns a failure and not a 200.
C2_EvictedCallerGetsFailure ==
    \A c \in Callers :
        (mode[c] \in NonStreaming /\ pc[c] = "done"
         /\ removed_by[rid[c]] \in {"evict", "sweep"})
            => result[c].status # 200

Rank(status) ==
    CASE status = "pending" -> 0
      [] status = "processing" -> 1
      [] status = "completed" -> 2

\* C3: the status of a request that stays in the registry never moves
\* backwards in the order pending, processing, completed.
C3_StatusOnlyForward ==
    [][\A i \in DOMAIN requests \cap DOMAIN requests' :
           Rank(requests'[i].status) >= Rank(requests[i].status)]_vars

Last(s) == s[Len(s)]
IsError(f) == f.type = "error"

\* C4: when the stream adapter retrieves a response with done=True and no
\* error, it stops at that response, with the usage frame last if usage is
\* present and no error frame, whether or not the content is empty.
C4_FinalResponseStops ==
    [][\A c \in Callers :
          (/\ mode[c] = "stream"
           /\ pc[c] = "loop"
           /\ rid[c] \in DOMAIN requests
           /\ Len(delivered'[rid[c]]) = Len(delivered[rid[c]]) + 1
           /\ Last(delivered'[rid[c]]).done
           /\ ~Truthy(Last(delivered'[rid[c]]).error))
          => LET r == Last(delivered'[rid[c]])
                 added == SubSeq(frames'[c], Len(frames[c]) + 1, Len(frames'[c]))
             IN  /\ pc'[c] = "finally"
                 /\ \A k \in 1..Len(added) : ~IsError(added[k])
                 /\ Truthy(r.usage) =>
                        /\ added # << >>
                        /\ Last(added) = Frame("usage", r.usage)]_vars

\* C5: a create_request on a registry that holds MAX_CONCURRENT_REQUESTS
\* requests removes exactly one of them, one with the smallest created_at,
\* and inserts the new request as pending; below the maximum it removes
\* nothing; either way the other requests are left as they were.
C5_CreateEvictsOldest ==
    [][next_id' = next_id + 1 =>
          LET old == DOMAIN requests
              new == DOMAIN requests'
          IN  /\ next_id \notin old
              /\ next_id \in new
              /\ requests'[next_id].status = "pending"
              /\ IF Cardinality(old) >= MAX_CONCURRENT_REQUESTS
                 THEN \E v \in old :
                        /\ new = (old \ {v}) \cup {next_id}
                        /\ \A j \in old :
                              requests[v].created_at <= requests[j].created_at
                 ELSE new = old \cup {next_id}
              /\ \A j \in new \ {next_id} : requests'[j] = requests[j]]_vars

\* the followed request was evicted although a request inserted before it
\* is still there: it had the smaller created_at
C5_Witness ==
    \E c \in Callers :
        /\ rid[c] \in Ids
        /\ removed_by[rid[c]] = "evict"
        /\ Cardinality(DOMAIN requests) = MAX_CONCURRENT_REQUESTS
        /\ \E j \in DOMAIN requests : j < rid[c]

\* C6: the registry never holds more than MAX_CONCURRENT_REQUESTS requests.
C6_WithinCapacity ==
    Cardinality(DOMAIN requests) <= MAX_CONCURRENT_REQUESTS

\* every id has been handed out and the registry is full
C6_Witness ==
    /\ next_id = MaxRequests + 1
    /\ Cardinality(DOMAIN requests) = MAX_CONCURRENT_REQUESTS

\* C7: for a streaming request, what get_response has returned so far,
\* followed by what is still queued, is what submit_response accepted, in
\* submission order.
C7_Fifo ==
    \A i \in DOMAIN requests :
        requests[i].stream =>
            /\ i \in DOMAIN response_queues
            /\ delivered[i] \o response_queues[i] = submitted[i]

\* two different responses were returned, a third kind of step in between
C7_Witness ==
    \E i \in DOMAIN requests :
        /\ Len(delivered[i]) = 2
        /\ delivered[i][1] # delivered[i][2]
        /\ response_queues[i] = << >>

Completing(i, r) == requests[i].stream => (r.done \/ Truthy(r.error))

\* C8: a submission that completes a request (an error or done=True for a
\* streaming request, any response for a non-streaming one) calls
\* Event.set() once and leaves the event set and the status completed;
\* from then on the event stays set, and a wait_for_completion call on the
\* completed request passes the presence test and the lookup and returns
\* True from Event.wait at once, never False by timeout.
C8_CompletedWaitReturnsTrue ==
    /\ [](\A i \in Ids :
            set_calls[i] >= 1 =>
                /\ event_set[i]
                /\ i \in DOMAIN requests => i \in completion_events)
    /\ [][\A i \in DOMAIN requests \cap DOMAIN requests' :
            (/\ Len(submitted'[i]) = Len(submitted[i]) + 1
             /\ Completing(i, Last(submitted'[i])))
            => /\ set_calls'[i] = set_calls[i] + 1
               /\ event_set'[i]
               /\ requests'[i].status = "completed"]_vars
    /\ [][\A c \in Callers :
            (/\ mode[c] \in NonStreaming
             /\ pc[c] \in {"wait_check", "wait_lookup", "wait_block"}
             /\ pc'[c] # pc[c]
             /\ rid[c] \in DOMAIN requests
             /\ set_calls[rid[c]] >= 1)
            => CASE pc[c] = "wait_check" -> pc'[c] = "wait_lookup"
                 [] pc[c] = "wait_lookup" -> pc'[c] = "wait_block"
                 [] pc[c] = "wait_block" ->
                        pc'[c] = "after_wait" /\ wret'[c] = TRUE]_vars

\* a caller is blocked past its deadline on a request a submission completed
C8_Witness ==
    \E c \in Callers :
        /\ pc[c] = "wait_block"
        /\ set_calls[rid[c]] >= 1
        /\ rid[c] \in DOMAIN requests
        /\ now >= deadline[c]

\* C9: for a non-streaming request with one accepted submission,
\* wait_for_completion returns True, and the handler's get_final_response
\* returns that response and removes the entry: the id is in none of the
\* three maps, a second get_final_response returns None and get_status
\* counts one request fewer.
C9_FinalResponseRemovesEntry ==
    [][\A c \in Callers :
          (/\ mode[c] \in NonStreaming
           /\ rid[c] \in DOMAIN requests
           /\ Len(submitted[rid[c]]) = 1)
          => LET i == rid[c]
                 r == submitted[i][1]
             IN  /\ (pc[c] = "wait_block" /\ pc'[c] = "after_wait") => wret'[c]
                 /\ (pc[c] = "after_wait" /\ pc'[c] = "done" /\ wret[c]) =>
                        /\ get_final_response(Registry, i).ret = <<r>>
                        /\ result'[c] = IF Truthy(r.error)
                                        THEN Failure(500, r.error)
                                        ELSE Success(<<r>>)
                        /\ i \notin DOMAIN requests'
                        /\ i \notin DOMAIN response_queues'
                        /\ i \notin completion_events'
                        /\ get_final_response(Registry', i).ret = << >>
                        /\ get_status(Registry').total_requests
                               = get_status(Registry).total_requests - 1]_vars

\* the handler returned the submitted content and its request is gone
C9_Witness ==
    \E c \in Callers :
        /\ pc[c] = "done"
        /\ removed_by[rid[c]] = "final"
        /\ result[c] = Success(<<Resp("hi there", None, SomeUsage, FALSE)>>)
        /\ rid[c] \notin DOMAIN requests

\* C10: once the status of a request is completed, no later submission is
\* accepted for it (nothing is appended to or put in place of its queue)
\* and completion is not signalled again.
C10_CompletedIsTerminal ==
    [][\A i \in DOMAIN requests \cap DOMAIN requests' :
           requests[i].status = "completed" =>
               /\ submitted'[i] = submitted[i]
               /\ set_calls'[i] = set_calls[i]]_vars

\* C11: while a non-streaming request with accepted submissions is in the
\* registry, its queue holds the first of them, so that is what
\* get_final_response hands to the caller; a later payload is discarded.
C11_FirstSubmissionWins ==
    \A i \in DOMAIN requests :
        (~requests[i].stream /\ submitted[i] # << >>) =>
            /\ i \in DOMAIN response_queues
            /\ response_queues[i] = <<submitted[i][1]>>
            /\ get_final_response(Registry, i).ret = <<submitted[i][1]>>

\* C12: when a non-streaming handler has returned for a request to which
\* nothing was ever submitted, what its caller got is an explicit error or
\* a timeout, whatever timeout value the request carried.
C12_TerminalOutcome ==
    \A c \in Callers :
        (mode[c] \in NonStreaming /\ pc[c] = "done" /\ set_calls[rid[c]] = 0)
            => result[c].status \in {408, 500, 504}

\* C13: a caller blocked in wait_for_completion always has a time at which
\* Event.wait gives up; when the wait is over for a request still in the
\* registry to which nothing was submitted, it returned False, and
\* get_response and get_final_response return None for that request.
C13_WaitBounded ==
    \A c \in Callers :
        /\ pc[c] = "wait_block" => deadline[c] # NoTimeout
        /\ (Waited(c) /\ rid[c] \in DOMAIN requests /\ set_calls[rid[c]] = 0)
               => /\ wret[c] = FALSE
                  /\ get_response(Registry, rid[c]).ret = << >>
                  /\ get_final_response(Registry, rid[c]).ret = << >>

InLoop == {"loop", "no_response"}
Gone(i) ==
    /\ i \notin DOMAIN requests
    /\ i \notin DOMAIN response_queues
    /\ i \notin completion_events

\* C14: a started stream_webllm_response leaves its loop only into the
\* finally clause, whatever ended it; the finally clause runs once, and
\* when it has run the registry holds no entry, queue or completion event
\* for the request, and none comes back afterwards.
C14_CancelOnEveryExit ==
    [][\A c \in Callers :
          mode[c] = "stream" =>
              /\ (pc[c] \in InLoop /\ pc'[c] \notin InLoop) => pc'[c] = "finally"
              /\ (pc[c] = "finally" /\ pc'[c] # "finally") =>
                     /\ pc'[c] = "done"
                     /\ Gone(rid[c])'
              /\ (pc[c] # "done" /\ pc'[c] = "done") => pc[c] = "finally"
              /\ (pc[c] = "done" /\ pc'[c] = "done") =>
                     /\ Gone(rid[c])'
                     /\ frames'[c] = frames[c]]_vars

\* the stream ended on a final response with usage and its request is gone
C14_Witness ==
    \E c \in Callers :
        /\ mode[c] = "stream"
        /\ pc[c] = "done"
        /\ frames[c] # << >>
        /\ Last(frames[c]).type = "usage"
        /\ Gone(rid[c])

InactiveFrame == Frame("error", "inactive")

TimedOutFrame == Frame("error", "timed out")

\* C16: an iteration of the adapter that starts when the time since
\* start_time is at least the request's timeout emits the timed-out error
\* frame alone and stops, taking nothing from the queue; no frame follows
\* once the loop has been left.
C16_TimeoutStops ==
    [][\A c \in Callers :
          /\ (/\ StreamPoll(c)
              /\ tmo[c] # NoTimeout
              /\ now - start_time[c] >= tmo[c])
             => /\ frames'[c] = Append(frames[c], TimedOutFrame)
                /\ pc'[c] = "finally"
                /\ response_queues' = response_queues
                /\ delivered' = delivered
          /\ (mode[c] = "stream" /\ pc[c] \in {"finally", "done"}
                  /\ pc'[c] \in {"finally", "done"})
             => frames'[c] = frames[c]]_vars

\* the stream timed out with a response still in its queue
C16_Witness ==
    \E c \in Callers :
        /\ pc[c] = "finally"
        /\ frames[c] # << >>
        /\ Last(frames[c]) = TimedOutFrame
        /\ rid[c] \in DOMAIN response_queues
        /\ response_queues[rid[c]] # << >>

\* C17: a run of the cleanup sweep removes every request whose age at
\* that time exceeds REQUEST_TTL, whatever its status, with its queue and
\* its event, and sets that event; every other request keeps its entry,
\* its queue and its event as they were.
C17_SweepRemovesExpired ==
    [][CleanupExpired =>
          \A i \in DOMAIN requests :
              IF now - requests[i].created_at > REQUEST_TTL
              THEN Gone(i)' /\ event_set'[i]
              ELSE /\ i \in DOMAIN requests'
                   /\ requests'[i] = requests[i]
                   /\ i \in DOMAIN response_queues =>
                          /\ i \in DOMAIN response_queues'
                          /\ response_queues'[i] = response_queues[i]
                   /\ i \in completion_events'
                   /\ event_set'[i] = event_set[i]]_vars

\* the sweep took the request a handler is blocked on, and released it,
\* while a younger request stayed
C17_Witness ==
    \E c \in Callers :
        /\ pc[c] = "wait_block"
        /\ removed_by[rid[c]] = "sweep"
        /\ event_set[rid[c]]
        /\ requests # << >>

\* C18: for a request in the registry the event is set exactly if a
\* completing response was accepted: any response for a non-streaming
\* request, whose queue never holds more than one; for a streaming request
\* only one with an error or done=True, while every accepted response is
\* either still in the queue or already taken from it.
C18_SignalIffCompleting ==
    \A i \in DOMAIN requests :
        /\ i \in completion_events
        /\ event_set[i] <=>
               \E k \in 1..Len(submitted[i]) : Completing(i, submitted[i][k])
        /\ IF requests[i].stream
           THEN /\ i \in DOMAIN response_queues
                /\ Len(delivered[i]) + Len(response_queues[i])
                       = Len(submitted[i])
           ELSE /\ submitted[i] = << >> <=> i \notin DOMAIN response_queues
                /\ i \in DOMAIN response_queues =>
                       Len(response_queues[i]) = 1

\* a streaming request whose queue took a partial response without the
\* signal and then a final one with it
C18_Witness ==
    \E i \in DOMAIN requests :
        /\ requests[i].stream
        /\ Len(response_queues[i]) = 2
        /\ ~Completing(i, response_queues[i][1])
        /\ Completing(i, response_queues[i][2])
        /\ event_set[i]

\* C19: for an id the registry does not hold, submit_response and
\* mark_processing return False and cancel_request returns, each leaving
\* the whole registry as it was; cancelling a request twice leaves what
\* cancelling it once leaves.
C19_UnknownIdNoOp ==
    /\ \A i \in Ids \ DOMAIN requests :
          /\ \A r \in Responses \cup StreamResponses :
                 submit_response(Registry, i, r) = [reg |-> Registry, ret |-> FALSE]
          /\ mark_processing(Registry, i) = [reg |-> Registry, ret |-> FALSE]
          /\ cancel_request(Registry, i) = Registry
    /\ \A j \in DOMAIN requests :
          cancel_request(cancel_request(Registry, j), j)
              = cancel_request(Registry, j)

\* the handler's request was cancelled before its wait began; the handler
\* is about to cancel it again while another request is in the registry
C19_Witness ==
    \E c \in Callers :
        /\ pc[c] = "after_wait"
        /\ ~wret[c]
        /\ removed_by[rid[c]] = "cancel"
        /\ rid[c] \notin DOMAIN requests
        /\ requests # << >>

\* C20: get_response returns the oldest response of the queue and takes
\* only that one out, leaving the requests, their statuses, the events and
\* every other queue as they were; on an empty queue or an id without a
\* queue it returns None and leaves everything as it was.
C20_GetResponseFrame ==
    \A i \in Ids :
        LET g == get_response(Registry, i)
        IN  /\ g.reg.requests = requests
            /\ g.reg.completion_events = completion_events
            /\ g.reg.event_set = event_set
            /\ DOMAIN g.reg.response_queues = DOMAIN response_queues
            /\ \A j \in DOMAIN response_queues \ {i} :
                   g.reg.response_queues[j] = response_queues[j]
            /\ IF i \in DOMAIN response_queues /\ response_queues[i] # << >>
               THEN /\ g.ret = <<response_queues[i][1]>>
                    /\ <<response_queues[i][1]>> \o g.reg.response_queues[i]
                           = response_queues[i]
               ELSE /\ g.ret = << >>
                    /\ g.reg = Registry

\* one response was taken from a completed streaming request, which is
\* still in the registry with the next response in its queue
C20_Witness ==
    \E c \in Callers :
        /\ pc[c] = "stream_ready"
        /\ rid[c] \in DOMAIN requests
        /\ requests[rid[c]].status = "completed"
        /\ event_set[rid[c]]
        /\ Len(delivered[rid[c]]) = 1
        /\ Len(response_queues[rid[c]]) = 1

\* C21: get_pending_requests returns the requests whose status is pending
\* at the time of the call, all of them and no other, as many as
\* get_status counts under pending.
C21_PendingSnapshot ==
    LET pending == get_pending_requests(Registry)
        by_status == get_status(Registry).requests_by_status
    IN  /\ \A i \in Ids :
               i \in pending <=>
                   (i \in DOMAIN requests /\ requests[i].status = "pending")
        /\ Cardinality(pending) =
               IF "pending" \in DOMAIN by_status THEN by_status["pending"] ELSE 0

\* the registry holds a pending request next to one that is past pending
C21_Witness ==
    /\ \E i \in DOMAIN requests : requests[i].status = "pending"
    /\ \E j \in DOMAIN requests : requests[j].status = "processing"

RECURSIVE SumOver(_, _)
SumOver(f, S) ==
    IF S = {} THEN 0
    ELSE LET x == CHOOSE y \in S : TRUE
         IN  f[x] + SumOver(f, S \ {x})

\* C22: the counts get_status returns per status are positive and sum to
\* total_requests, which is the number of requests in the registry at that
\* instant and is at most max_concurrent.
C22_StatusConsistent ==
    LET st == get_status(Registry)
    IN  /\ SumOver(st.requests_by_status, DOMAIN st.requests_by_status)
               = st.total_requests
        /\ st.total_requests = Cardinality(DOMAIN requests)
        /\ st.total_requests <= st.max_concurrent
        /\ \A k \in DOMAIN st.requests_by_status :
               /\ st.requests_by_status[k] >= 1
               /\ k \in {"pending", "processing", "completed"}

\* a full registry with a completed request next to a pending one
C22_Witness ==
    /\ Cardinality(DOMAIN requests) = MAX_CONCURRENT_REQUESTS
    /\ {"pending", "completed"} \subseteq
           DOMAIN get_status(Registry).requests_by_status

\* C23: when a poll of the adapter found no response, the inactivity
\* ceiling is not exceeded and the request is no longer in the registry,
\* the adapter leaves the loop without emitting a frame.
C23_VanishedStopsSilently ==
    [][\A c \in Callers :
          (/\ mode[c] = "stream"
           /\ pc[c] = "no_response"
           /\ pc'[c] # "no_response"
           /\ rid[c] \notin DOMAIN requests
           /\ now - last_activity[c] <= max_inactive_time(response_received[c]))
          => /\ pc'[c] = "finally"
             /\ frames'[c] = frames[c]]_vars

\* the request expired under a stream that had emitted nothing, and the
\* stream ended without a frame
C23_Witness ==
    \E c \in Callers :
        /\ mode[c] = "stream"
        /\ pc[c] = "done"
        /\ removed_by[rid[c]] = "sweep"
        /\ frames[c] = << >>

\* C25: every removal (cancel_request, the sweep, capacity eviction, the
\* adapter's cleanup and get_final_response all call _remove_request)
\* sets the event of the request before dropping it from the registry, so
\* a caller that holds the event of a removed request is never blocked:
\* its event.wait() can return.
C25_RemovalReleasesWaiters ==
    /\ [][\A i \in Ids :
            (i \in completion_events /\ i \notin completion_events')
                => event_set'[i]]_vars
    /\ [](\A c \in Callers :
            (pc[c] = "wait_block" /\ rid[c] \notin completion_events)
                => /\ event_set[rid[c]]
                   /\ event_wait(event_set[rid[c]], now, deadline[c]) = {TRUE})

C25_Witness ==
    \E c \in Callers :
        /\ pc[c] = "wait_block"
        /\ removed_by[rid[c]] = "evict"
        /\ set_calls[rid[c]] = 0
        /\ event_set[rid[c]]

\* C28: wait_for_completion returns a boolean under every interleaving
\* with a removal of the same id; stated as: no caller's call ends with
\* the KeyError of the lookup at line 206.
C28_WaitNeverRaises ==
    \A c \in Callers : result[c] # Failure(500, "KeyError")

\* C29: the ids with a completion event are the ids with a request, and
\* every id with a response queue has a request.
C29_MapsConsistent ==
    /\ completion_events = DOMAIN requests
    /\ DOMAIN response_queues \subseteq DOMAIN requests
    /\ \A i \in Ids \ DOMAIN requests : i >= next_id \/ event_set[i]

C29_Witness ==
    /\ \E i \in DOMAIN requests : i \notin DOMAIN response_queues
    /\ \E i \in DOMAIN requests : i \in DOMAIN response_queues
    /\ \E i \in Ids : i < next_id /\ i \notin DOMAIN requests

\* C30: when a non-streaming webllm_generate or webllm_chat call has
\* returned after wait_for_completion returned, the registry holds no
\* entry, queue or event for the request it created.
C30_NoLeak ==
    \A c \in Callers :
        (mode[c] \in NonStreaming /\ pc[c] = "done") => Gone(rid[c])

C30_Witness ==
    \E c \in Callers :
        /\ mode[c] \in NonStreaming
        /\ pc[c] = "done"
        /\ result[c].status \in {408, 504}
        /\ ~wret[c]
        /\ deadline[c] # 0
        /\ set_calls[rid[c]] >= 1

\* C24: what the caller of webllm_chat receives does not depend on how
\* persistence ends: the non-streaming result, and the frames the stream
\* emits for the final chunk and after it, are those of a call whose
\* messages were stored.
FailedSave == {"not_found", "raised"}

C24_PersistenceIsolated ==
    /\ [][\A c \in Callers :
            (mode[c] = "chat" /\ pc[c] = "after_wait" /\ pc'[c] = "done")
                => result'[c] =
                     handler_after_wait(Registry, rid[c], "chat", wret[c],
                                        "saved").result]_vars
    /\ [][\A c \in Callers :
            (mode[c] = "stream" /\ pc[c] = "loop" /\ saved'[c] # saved[c])
                => /\ pc'[c] = "finally"
                   /\ frames'[c] = frames[c] \o
                        stream_on_response(
                            get_response(Registry, rid[c]).ret[1],
                            "saved").out]_vars
    /\ [][\A c \in Callers :
            (saved[c] \in FailedSave /\ pc'[c] # "idle")
                => /\ frames'[c] = frames[c]
                   /\ result'[c] = result[c]]_vars

C24_Witness ==
    \E c \in Callers :
        /\ mode[c] = "chat"
        /\ pc[c] = "done"
        /\ saved[c] \in FailedSave
        /\ result[c].status = 200
        /\ result[c].content # ""

\* C27: the cleanup timer is armed after every cleanup cycle, whether the
\* sweep went through or raised, so a next cycle can always fire.
C27_CleanupRescheduled ==
    /\ [](cleanup_timer = "armed")
    /\ [][cleanup_failures' # cleanup_failures
            => cleanup_timer' = "armed"]_vars

C27_Witness ==
    /\ cleanup_failures >= 1
    /\ cleanup_timer = "armed"
    /\ requests # << >>

\* C26: the maps are changed only by the thread holding the lock, so the
\* capacity test and the insert of create_request act on the registry as
\* one step (the maps after the insert are create_request of the maps the
\* block found), the lock is held exactly while a thread is inside the
\* block, and the registry never exceeds its capacity.
C26_MutationsUnderLock ==
    /\ [](Cardinality(DOMAIN requests) <= MAX_CONCURRENT_REQUESTS)
    /\ [](\A t \in Threads : lock_op[t] # << >> <=> lock = t)
    /\ [][\A t \in Threads :
            (lock_op[t] # << >> /\ lock_op'[t] = << >>)
                => Registry' = create_request(lock_op[t][1].seen,
                                              lock_op[t][1].request_id,
                                              lock_op[t][1].webllm_request)]_vars
    /\ [][(lock # 0 /\ lock' # 0) => mgr' = mgr]_vars

C26_Witness ==
    \E t \in Threads :
        /\ lock = t
        /\ lock_op[t] # << >>
        /\ at_capacity(lock_op[t][1].seen)
        /\ Cardinality(DOMAIN requests) = MAX_CONCURRENT_REQUESTS - 1
        /\ \E i \in DOMAIN requests : requests[i].status = "completed"

====
